---- MODULE Spec2Model ----
(***************************************************************************)
(* The boot patch of ccf-ui: a bearer token kept in localStorage, captured *)
(* from /api/auth/login responses and attached to /api/* calls issued      *)
(* through window.fetch and through XMLHttpRequest (axios).                *)
(*                                                                         *)
(* The repository holds two versions of the patch.  Both are modelled;    *)
(* the variable build says which one is installed in the page:            *)
(*   "boot"  src/src/boot/auth-header.ts                                   *)
(*   "p0"    src/unnamed/part_000                                          *)
(* Definitions translated from part_000 carry the suffix _p0.              *)
(***************************************************************************)
EXTENDS Integers, Sequences, FiniteSets, TLC

\* Number of call instances (fetch invocations / XMLHttpRequest objects)
\* that can be alive at the same time.
MaxInFlight == 2

Slots == 1 .. MaxInFlight

(***************************************************************************)
(* Values                                                                  *)
(***************************************************************************)
\* localStorage.getItem's null: no item under TOKEN_KEY.
Null == "<null>"
\* JavaScript's undefined, as an argument of setToken.
Undefined == "<undefined>"

\* Token strings a login response may carry.  "tok<LF>b" holds a line feed:
\* a string, non-empty, but not a legal HTTP header value.
Tokens == {"tokA", "tokB", "tok<LF>b"}

\* Headers.set / setRequestHeader accept a value only when it is a legal
\* header value (no NUL, CR or LF inside, every code unit below 256).
IsHeaderValue(t) == t # "tok<LF>b"

\* A header value is a sequence of parts; two parts are the value that
\* XMLHttpRequest builds by joining with ", ".  <<>> is "no such header".
Absent == << >>
Caller(x) == << [kind |-> "caller", tok |-> x] >>
Bearer(t) == << [kind |-> "Bearer", tok |-> t] >>

HeaderNames == {"authorization", "accept"}
EmptyHeaders == [n \in HeaderNames |-> Absent]
Hdrs(auth, acc) == [n \in HeaderNames |-> IF n = "authorization" THEN auth ELSE acc]

\* Header collections a caller puts on a Request object / into init.headers.
ReqHeaderChoices ==
    { EmptyHeaders, Hdrs(Caller("req"), Absent), Hdrs(Caller("req"), Caller("req")) }
InitHeaderChoices ==
    { EmptyHeaders, Hdrs(Caller("init"), Absent), Hdrs(Absent, Caller("init")) }
\* init as the caller passed it: has = FALSE is "no init, or init without headers".
NoInit == [has |-> FALSE, h |-> EmptyHeaders]
InitChoices == { [has |-> TRUE, h |-> h] : h \in InitHeaderChoices } \cup { NoInit }

(***************************************************************************)
(* URLs.  A URL string is a form and the segments of its path:            *)
(*   "path"  "/a/b"                       "rel"   "a/b"                    *)
(*   "abs"   "https://<page origin>/a/b"  "cross" "https://other.host/a/b" *)
(*   "bad"   a string new URL(url, origin) rejects, such as "http://["     *)
(* An empty last segment is a trailing slash.                              *)
(***************************************************************************)
U(form, segs) == [form |-> form, segs |-> segs]

Targets ==
    { U("path",  <<"api", "auth", "login">>),
      U("cross", <<"api", "auth", "logout">>),
      U("rel",   <<"public", "..", "api", "widgets">>),
      U("path",  <<"v1", "api", "auth", "login">>),
      U("path",  <<"api", "..", "public", "api", "auth", "logout">>),
      U("bad",   << >>) }

\* What String(undefined) resolves as: the relative reference "undefined".
UndefinedUrl == U("rel", <<"undefined">>)

RECURSIVE RemoveDots(_, _)
\* The URL parser's path state: "." is skipped, ".." drops the last segment,
\* and a dot segment in last position leaves a trailing slash.
RemoveDots(segs, acc) ==
    IF segs = << >> THEN acc
    ELSE LET s    == Head(segs)
             rest == Tail(segs)
             slash == IF rest = << >> THEN <<"">> ELSE << >>
         IN  IF s = ".." THEN
                 RemoveDots(rest, (IF acc = << >> THEN acc ELSE SubSeq(acc, 1, Len(acc) - 1)) \o slash)
             ELSE IF s = "." THEN RemoveDots(rest, acc \o slash)
             ELSE RemoveDots(rest, Append(acc, s))

\* new URL(url, window.location.origin): threw, or the parsed pathname.
NewURL(u) ==
    IF u.form = "bad" THEN [threw |-> TRUE, pathname |-> << >>]
    ELSE [threw |-> FALSE, pathname |-> RemoveDots(u.segs, << >>)]

\* pathname.startsWith('/api/')
StartsWithApi(p) == Len(p) >= 2 /\ p[1] = "api"

\* /\/api\/auth\/login$/.test(p) and /\/api\/auth\/logout$/.test(p)
EndsWith(p, last) ==
    /\ Len(p) >= 3
    /\ p[Len(p) - 2] = "api"
    /\ p[Len(p) - 1] = "auth"
    /\ p[Len(p)] = last
LoginRe(p) == EndsWith(p, "login")
LogoutRe(p) == EndsWith(p, "logout")

isApi_NoPrefixCheck(u) == ~NewURL(u).threw
isApi(u) ==
    LET r == NewURL(u)
    IN  IF r.threw THEN FALSE ELSE StartsWithApi(r.pathname)

\* URL.prototype.toString() and Request.prototype.url: the absolute,
\* normalised serialisation.
Serialize(u) ==
    [form |-> IF u.form = "cross" THEN "cross" ELSE "abs",
     segs |-> RemoveDots(u.segs, << >>)]

(***************************************************************************)
(* Token Store                                                             *)
(***************************************************************************)
Truthy(t) == t \notin {"", Undefined, Null}

\* Each operation yields the value returned, the item left in storage and
\* whether an exception escaped to the caller.  ok = FALSE: localStorage
\* throws on access.
getToken_WrongKey(ok, st) ==
    [value |-> "", stored |-> st, raised |-> FALSE]
getToken(ok, st) ==
    [value  |-> IF ~ok THEN "" ELSE IF st = Null THEN "" ELSE st,
     stored |-> st,
     raised |-> FALSE]

setToken_NoGuard(ok, st, t) ==
    [value |-> Undefined, stored |-> IF ok THEN t ELSE st, raised |-> FALSE]
setToken(ok, st, t) ==
    [value  |-> Undefined,
     stored |-> IF Truthy(t) /\ ok THEN t ELSE st,
     raised |-> FALSE]

clearToken(ok, st) ==
    [value  |-> Undefined,
     stored |-> IF ok THEN Null ELSE st,
     raised |-> FALSE]

(***************************************************************************)
(* Responses                                                               *)
(***************************************************************************)
\* A response body: json = FALSE is text JSON.parse rejects; tokType is the
\* type of body.data.auth_token ("missing": no data, or no auth_token).
Body(json, tokType, tok) == [json |-> json, tokType |-> tokType, tok |-> tok]
Bodies ==
    { Body(FALSE, "missing", ""), Body(TRUE, "missing", ""),
      Body(TRUE, "number", ""),   Body(TRUE, "string", "") }
      \cup { Body(TRUE, "string", t) : t \in Tokens }
NoBody == Body(FALSE, "missing", "")

Statuses == {200, 299, 300, 401}
\* Response.ok, and this.status >= 200 && this.status < 300
IsOk(status) == status >= 200 /\ status < 300

\* body?.data?.auth_token, narrowed by
\* typeof token === 'string' && token.length > 0: the token, or Undefined.
AuthTokenOf(body) ==
    IF body.json /\ body.tokType = "string" /\ body.tok # "" THEN body.tok ELSE Undefined

(***************************************************************************)
(* The host's transports                                                   *)
(***************************************************************************)
Overlay(base, over) ==
    [n \in HeaderNames |-> IF over[n] # Absent THEN over[n] ELSE base[n]]

\* The headers the original fetch sends for (input, init): init.headers, when
\* given, replace the headers of a Request input.
HostHeaders(shape, reqH, init) ==
    IF init.has THEN init.h
    ELSE IF shape = "Request" THEN reqH ELSE EmptyHeaders

\* XMLHttpRequest.prototype.setRequestHeader: rejects an illegal value,
\* otherwise combines the value with the one already set for the name.
SetRequestHeader(existing, t) ==
    IF IsHeaderValue(t)
    THEN [threw |-> FALSE, value |-> existing \o Bearer(t)]
    ELSE [threw |-> TRUE, value |-> existing]

(***************************************************************************)
(* window.fetch, up to the call of the original fetch                      *)
(***************************************************************************)
FetchShapes == {"string", "URL", "Request"}

\* auth-header.ts: url, the verdict, whether the wrapper threw before
\* forwarding, and the headers the original fetch sends.
fetchPrepare(shape, u, reqH, init, ok, st) ==
    LET url    == IF shape = "string" THEN u ELSE Serialize(u)
        merged == IF init.has
                  THEN Overlay(IF shape = "Request" THEN reqH ELSE EmptyHeaders, init.h)
                  ELSE IF shape = "Request" THEN reqH ELSE EmptyHeaders
        t      == getToken(ok, st).value
        inject == merged["authorization"] = Absent /\ t # ""
    IN  [url     |-> url,
         verdict |-> isApi(url),
         threw   |-> isApi(url) /\ inject /\ ~IsHeaderValue(t),
         headers |-> IF ~isApi(url) THEN HostHeaders(shape, reqH, init)
                     ELSE IF inject THEN [merged EXCEPT !["authorization"] = Bearer(t)]
                     ELSE merged]

\* part_000: a URL value has no .url, and only init.headers are merged; the
\* rebuilt cfg.headers replace the headers of a Request input.
fetchPrepare_p0(shape, u, reqH, init, ok, st) ==
    LET url    == IF shape = "string" THEN u
                  ELSE IF shape = "Request" THEN Serialize(u) ELSE UndefinedUrl
        h      == IF init.has THEN init.h ELSE EmptyHeaders
        t      == getToken(ok, st).value
        inject == h["authorization"] = Absent /\ t # ""
    IN  [url     |-> url,
         verdict |-> isApi(url),
         threw   |-> isApi(url) /\ inject /\ ~IsHeaderValue(t),
         headers |-> IF ~isApi(url) THEN HostHeaders(shape, reqH, init)
                     ELSE IF inject THEN [h EXCEPT !["authorization"] = Bearer(t)]
                     ELSE h]

(***************************************************************************)
(* window.fetch, after the original fetch resolved                         *)
(***************************************************************************)
\* Whether the wrapper goes on to await res.clone().json().
fetchReadsBody_NoOkCheck(url, status) ==
    LET r == NewURL(url)
    IN  ~r.threw /\ LoginRe(r.pathname)
fetchReadsBody(url, status) ==
    LET r == NewURL(url)
    IN  ~r.threw /\ LoginRe(r.pathname) /\ IsOk(status)
fetchReadsBody_p0(url, status) ==
    LET r == NewURL(url)
    IN  isApi(url) /\ ~r.threw /\ LoginRe(r.pathname) /\ IsOk(status)

\* The item in storage after the token check that follows the body read.
fetchCapture(body, ok, st) ==
    IF AuthTokenOf(body) # Undefined
    THEN setToken(ok, st, AuthTokenOf(body)).stored
    ELSE st

(***************************************************************************)
(* XMLHttpRequest                                                          *)
(***************************************************************************)
\* send: the Authorization value on the request when XS is called, given the
\* value the caller set with setRequestHeader after open (Absent: none).
xhrSend(flag, callerAuth, ok, st) ==
    LET t == getToken(ok, st).value
    IN  IF flag /\ t # "" THEN SetRequestHeader(callerAuth, t).value ELSE callerAuth
xhrSend_p0(flag, callerAuth, ok, st) ==
    LET t == getToken(ok, st).value
    IN  IF flag /\ t # "" THEN SetRequestHeader(callerAuth, t).value ELSE callerAuth

ResponseTypes == {"", "json", "blob"}
\* The responses an XHR completes with: any body as text, and a token-bearing
\* or unparsable body under the other response types.
XhrResponses ==
    { <<"", b>> : b \in Bodies }
      \cup { <<t, b>> : t \in {"json", "blob"},
                        b \in {Body(TRUE, "string", "tokA"), Body(FALSE, "missing", "")} }
\* The load listener's json: this.response when it is an object, else
\* JSON.parse(this.responseText); a failure leaves null.
XhrJson(rtype, body) ==
    IF rtype = "blob" THEN Body(TRUE, "missing", "")
    ELSE IF body.json THEN body ELSE Body(FALSE, "missing", "")

\* The 'load' listener of auth-header.ts: the item in storage afterwards.
xhrLoad_NoFlagCheck(flag, respUrl, status, rtype, body, ok, st) ==
    LET r  == NewURL(respUrl)
        p  == r.pathname
        s1 == IF LoginRe(p) /\ IsOk(status) /\ AuthTokenOf(XhrJson(rtype, body)) # Undefined
              THEN setToken(ok, st, AuthTokenOf(XhrJson(rtype, body))).stored ELSE st
        s2 == IF LogoutRe(p) /\ IsOk(status) THEN clearToken(ok, s1).stored ELSE s1
        s3 == IF status = 401 THEN clearToken(ok, s2).stored ELSE s2
    IN  IF r.threw THEN st ELSE s3
xhrLoad(flag, respUrl, status, rtype, body, ok, st) ==
    LET r  == NewURL(respUrl)
        p  == r.pathname
        s1 == IF LoginRe(p) /\ IsOk(status) /\ AuthTokenOf(XhrJson(rtype, body)) # Undefined
              THEN setToken(ok, st, AuthTokenOf(XhrJson(rtype, body))).stored ELSE st
        s2 == IF LogoutRe(p) /\ IsOk(status) THEN clearToken(ok, s1).stored ELSE s1
        s3 == IF status = 401 THEN clearToken(ok, s2).stored ELSE s2
    IN  IF ~flag \/ r.threw THEN st ELSE s3
\* part_000 registers no listener.
xhrLoad_p0(flag, respUrl, status, rtype, body, ok, st) == st

(***************************************************************************)
(* State                                                                   *)
(***************************************************************************)
VARIABLES
    build,      \* which version of the patch the page loaded
    installs,   \* how many times the page ran it (each run wraps the previous)
    storageOk,  \* FALSE: localStorage throws on access
    stored,     \* the item under TOKEN_KEY, or Null
    calls,      \* per call instance: where it is and what it carries
    last,       \* observation of the most recent step, for the properties
    cred        \* the most recent credential event, for the properties

vars == <<build, installs, storageOk, stored, calls, last, cred>>

Builds == {"boot", "p0"}

\* pc: "idle"      no call on this instance
\*     "opened"    XHR: open() returned, send() not yet called
\*     "inflight"  handed to the original transport
\*     "reading"   fetch: response received, res.clone().json() pending
\* target is what the caller passed, url the wrapper's own url string,
\* ccf_is_api the verdict (XHR: the __ccf_is_api field), status and body the
\* response whose json() is pending, peer what another call completed with
\* meanwhile.
IdleCall ==
    [pc |-> "idle", transport |-> "none", target |-> U("bad", << >>),
     url |-> U("bad", << >>), ccf_is_api |-> FALSE,
     status |-> 0, body |-> NoBody, peer |-> "none"]

NoLast ==
    [kind |-> "none", transport |-> "none", inScope |-> FALSE, verdict |-> FALSE,
     callerAuth |-> Absent, sentAuth |-> Absent,
     callerAccept |-> Absent, sentAccept |-> Absent, forwarded |-> FALSE, same |-> TRUE,
     resp |-> "none", path |-> "none", raced |-> FALSE, changed |-> FALSE,
     op |-> "none", arg |-> Null, value |-> Null, raised |-> FALSE,
     once |-> <<Absent, Absent>>, onceStored |-> Null, atNotify |-> {},
     argsIn |-> << >>, argsOut |-> << >>, sends |-> 0]

NoEvt == [evt |-> "none", tok |-> Null]
NoCred == [evt |-> "none", tok |-> Null, ok |-> TRUE]

Init ==
    /\ build \in Builds
    /\ installs = 1
    /\ storageOk = TRUE
    /\ stored = Null
    /\ calls = [c \in Slots |-> IdleCall]
    /\ last = NoLast
    /\ cred = NoCred

\* The page ran the boot code twice.
InitTwice ==
    /\ build \in Builds
    /\ installs = 2
    /\ storageOk = TRUE
    /\ stored = Null
    /\ calls = [c \in Slots |-> IdleCall]
    /\ last = NoLast
    /\ cred = NoCred

\* this.__ccf_is_api as send and the load listener read it: the field of the
\* instance itself.
ccfIsApi_Shared(c) == \E d \in Slots : calls[d].ccf_is_api
ccfIsApi(c) == calls[c].ccf_is_api

(***************************************************************************)
(* Vocabulary of the properties                                            *)
(***************************************************************************)
\* The target resolved against the page origin has a path under /api/.
ResolvedInScope(u) == u.form # "bad" /\ StartsWithApi(RemoveDots(u.segs, << >>))

\* The Authorization value the caller supplied to fetch: init over Request.
CallerAuthOf(shape, reqH, init) ==
    Overlay(IF shape = "Request" THEN reqH ELSE EmptyHeaders,
            IF init.has THEN init.h ELSE EmptyHeaders)["authorization"]

\* The Accept value the caller supplied to fetch, likewise.
CallerAcceptOf(shape, reqH, init) ==
    Overlay(IF shape = "Request" THEN reqH ELSE EmptyHeaders,
            IF init.has THEN init.h ELSE EmptyHeaders)["accept"]

\* What a response is, by the final path p, the status and the parsed body:
\* "unauth", "login" (with its token), "logout" or "none".
RespEvt(p, status, body) ==
    IF status = 401 THEN [evt |-> "unauth", tok |-> Null]
    ELSE IF LoginRe(p) /\ IsOk(status) /\ body.json /\ body.tokType = "string" /\ body.tok # ""
         THEN [evt |-> "login", tok |-> body.tok]
    ELSE IF LogoutRe(p) /\ IsOk(status) THEN [evt |-> "logout", tok |-> Null]
    ELSE NoEvt

\* The credential event after call c completed with e; ok is whether the
\* storage worked when the response was processed.
CredAfter(c, e) ==
    IF ResolvedInScope(calls[c].target) /\ e.evt # "none"
    THEN [evt |-> e.evt, tok |-> e.tok, ok |-> storageOk]
    ELSE cred

\* The final path by its ending: "login", "logout" or "other".
PathClass(p) == IF LoginRe(p) THEN "login" ELSE IF LogoutRe(p) THEN "logout" ELSE "other"

Opposite(e) == IF e = "login" THEN "unauth" ELSE IF e = "unauth" THEN "login" ELSE "-"

\* Call c is over; when it was an in-scope login or 401, the calls still
\* with the transport have now seen it complete before them.
Finish(c, inScope, e) ==
    [d \in Slots |->
        IF d = c THEN IdleCall
        ELSE IF inScope /\ e.evt \in {"login", "unauth"}
                /\ calls[d].pc \in {"inflight", "reading"}
             THEN [calls[d] EXCEPT !.peer = e.evt]
             ELSE calls[d]]

\* The observation of a completion of call c with response event e.
Delivered(c, e, newStored) ==
    [NoLast EXCEPT !.kind = "deliver", !.transport = calls[c].transport,
                   !.inScope = ResolvedInScope(calls[c].target),
                   !.verdict = ccfIsApi(c),
                   !.forwarded = TRUE, !.same = TRUE, !.resp = e.evt,
                   !.raced = (ResolvedInScope(calls[c].target)
                              /\ calls[c].peer = Opposite(e.evt)),
                   !.changed = (newStored # stored)]

Failed(c) ==
    [NoLast EXCEPT !.kind = "fail", !.transport = calls[c].transport,
                   !.inScope = ResolvedInScope(calls[c].target),
                   !.verdict = ccfIsApi(c),
                   !.forwarded = TRUE, !.same = TRUE]

\* Call instances are interchangeable: a new call takes the first idle one.
FirstIdle(c) == calls[c].pc = "idle" /\ \A d \in Slots : d < c => calls[d].pc # "idle"

(***************************************************************************)
(* The patch as installed: one wrapper, or a wrapper around a wrapper      *)
(***************************************************************************)
\* What a fetch wrapper hands to the _fetch it captured, given its result r.
\* auth-header.ts: (input, init) untouched when out of scope, else a rebuilt
\* Request, or the input with {...init, headers: merged}.  part_000: the
\* input with cfg.
fetchForward(b, shape, u, reqH, init, r) ==
    IF ~r.verdict THEN [shape |-> shape, u |-> u, reqH |-> reqH, init |-> init]
    ELSE IF b = "boot" /\ shape = "Request"
         THEN [shape |-> shape, u |-> u, reqH |-> r.headers, init |-> NoInit]
    ELSE [shape |-> shape, u |-> u, reqH |-> reqH, init |-> [has |-> TRUE, h |-> r.headers]]

\* window.fetch after n runs of the boot code: the outer wrapper's _fetch is
\* the inner wrapper.
fetchInstalled(n, b, shape, u, reqH, init, ok, st) ==
    LET prep(sh, uu, rh, ini) == IF b = "boot" THEN fetchPrepare(sh, uu, rh, ini, ok, st)
                                 ELSE fetchPrepare_p0(sh, uu, rh, ini, ok, st)
        r1 == prep(shape, u, reqH, init)
        a  == fetchForward(b, shape, u, reqH, init, r1)
        r2 == prep(a.shape, a.u, a.reqH, a.init)
    IN  IF n = 1 \/ r1.threw THEN r1
        ELSE [r2 EXCEPT !.url = r1.url, !.verdict = r1.verdict]

\* open: the arguments after (method, url) that XO receives, given those the
\* caller passed.  auth-header.ts declares async = true, username, password
\* and passes all five; part_000 spreads the rest.
openArgs(rest) ==
    << IF Len(rest) >= 1 /\ rest[1] # Undefined THEN rest[1] ELSE "true",
       IF Len(rest) >= 2 THEN rest[2] ELSE Undefined,
       IF Len(rest) >= 3 THEN rest[3] ELSE Undefined >>
openArgs_p0(rest) == rest
openInstalled(n, b, rest) ==
    LET f(x) == IF b = "boot" THEN openArgs(x) ELSE openArgs_p0(x)
    IN  IF n = 1 THEN f(rest) ELSE f(f(rest))

\* The argument lists callers use: open(m, u), open(m, u, true),
\* open(m, u, undefined), open(m, u, false, 'user', 'pw').
OpenArgChoices == { << >>, <<"true">>, <<Undefined>>, <<"false", "user", "pw">> }

\* send after n runs: the outer send sets the header, then calls the inner.
xhrSendInstalled(n, b, flag, callerAuth, ok, st) ==
    LET f(x) == IF b = "boot" THEN xhrSend(flag, x, ok, st) ELSE xhrSend_p0(flag, x, ok, st)
    IN  IF n = 1 THEN f(callerAuth) ELSE f(f(callerAuth))

\* The load listeners after n runs, in the order they were registered.
xhrLoadInstalled(n, b, flag, respUrl, status, rtype, body, ok, st) ==
    LET f(x) == IF b = "boot" THEN xhrLoad(flag, respUrl, status, rtype, body, ok, x)
                ELSE xhrLoad_p0(flag, respUrl, status, rtype, body, ok, x)
    IN  IF n = 1 THEN f(st) ELSE f(f(st))

\* What the patch does to the store when the transport fails before a
\* response exists: the await throws past the capture code, no 'load' fires.
onTransportFailure_Clears(ok, st) == clearToken(ok, st).stored
onTransportFailure(ok, st) == st

(***************************************************************************)
(* Actions: window.fetch                                                   *)
(***************************************************************************)
\* The wrapper runs from its entry to the call of the original fetch.
FetchCall(c, shape, u, reqH, init) ==
    /\ FirstIdle(c)
    /\ shape = "string" \/ u.form # "bad"
    /\ shape = "Request" \/ reqH = EmptyHeaders
    /\ \E r \in { fetchInstalled(installs, build, shape, u, reqH, init, storageOk, stored) },
          r1 \in { fetchInstalled(1, build, shape, u, reqH, init, storageOk, stored) } :
       LET obs == [NoLast EXCEPT !.transport = "fetch",
                                 !.inScope = ResolvedInScope(u),
                                 !.verdict = r.verdict,
                                 !.callerAuth = CallerAuthOf(shape, reqH, init),
                                 !.callerAccept = CallerAcceptOf(shape, reqH, init)]
       IN  IF r.threw
           THEN /\ calls' = calls
                /\ last' = [obs EXCEPT !.kind = "threw", !.forwarded = FALSE, !.same = FALSE,
                                       !.sends = 0]
           ELSE /\ calls' = [calls EXCEPT ![c] =
                                [IdleCall EXCEPT !.pc = "inflight", !.transport = "fetch",
                                                 !.target = u, !.url = r.url,
                                                 !.ccf_is_api = r.verdict]]
                /\ last' = [obs EXCEPT !.kind = "handoff", !.forwarded = TRUE,
                                       !.sentAuth = r.headers["authorization"],
                                       !.sentAccept = r.headers["accept"],
                                       !.once = <<r1.headers["authorization"],
                                                  r1.headers["accept"]>>,
                                       !.sends = 1]
    /\ UNCHANGED <<build, installs, storageOk, stored, cred>>

\* The original fetch resolves with a response.
FetchSettle(c, status, body) ==
    /\ calls[c].pc = "inflight"
    /\ calls[c].transport = "fetch"
    /\ \E call \in { calls[c] }, p \in { RemoveDots(calls[c].target.segs, << >>) } :
       \E reads \in { IF build = "boot"
                       THEN call.ccf_is_api /\ fetchReadsBody(call.url, status)
                       ELSE fetchReadsBody_p0(call.url, status) },
          e \in { RespEvt(p, status, body) } :
           IF reads
           THEN /\ calls' = [calls EXCEPT
                               ![c].pc = IF installs = 1 THEN "reading" ELSE "reading_inner",
                               ![c].status = status, ![c].body = body]
                /\ last' = [NoLast EXCEPT !.kind = "settled", !.transport = "fetch"]
                /\ UNCHANGED cred
           ELSE /\ calls' = Finish(c, ResolvedInScope(call.target), e)
                /\ last' = [Delivered(c, e, stored) EXCEPT
                               !.path = PathClass(p),
                               !.onceStored = stored, !.atNotify = {stored}]
                /\ cred' = CredAfter(c, e)
    /\ UNCHANGED <<build, installs, storageOk, stored>>

\* Installed twice: the inner wrapper's res.clone().json() settles, its token
\* check runs and it returns res to the outer wrapper, which starts its own
\* body read.
FetchInnerRead(c) ==
    /\ calls[c].pc = "reading_inner"
    /\ LET call == calls[c]
           e    == RespEvt(RemoveDots(call.target.segs, << >>), call.status, call.body)
       IN  /\ stored' = fetchCapture(call.body, storageOk, stored)
           /\ calls' = [calls EXCEPT ![c].pc = "reading"]
           /\ last' = [NoLast EXCEPT !.kind = "inner", !.transport = "fetch"]
           /\ cred' = CredAfter(c, e)
    /\ UNCHANGED <<build, installs, storageOk>>

\* res.clone().json() settles; the token check runs and res is returned.
FetchBodyRead(c) ==
    /\ calls[c].pc = "reading"
    /\ \E call \in { calls[c] }, p \in { RemoveDots(calls[c].target.segs, << >>) } :
       \E e \in { RespEvt(p, call.status, call.body) },
          new \in { fetchCapture(call.body, storageOk, stored) } :
           /\ stored' = new
           /\ calls' = Finish(c, ResolvedInScope(call.target), e)
           /\ last' = [Delivered(c, e, new) EXCEPT
                          !.path = PathClass(p), !.onceStored = new, !.atNotify = {new}]
           /\ cred' = CredAfter(c, e)
    /\ UNCHANGED <<build, installs, storageOk>>

\* The original fetch rejects (network failure, abort): the await throws and
\* the wrapper's promise rejects with the same error.
FetchReject(c) ==
    /\ calls[c].pc = "inflight"
    /\ calls[c].transport = "fetch"
    /\ stored' = onTransportFailure(storageOk, stored)
    /\ calls' = [calls EXCEPT ![c] = IdleCall]
    /\ last' = [Failed(c) EXCEPT !.changed = (onTransportFailure(storageOk, stored) # stored)]
    /\ UNCHANGED <<build, installs, storageOk, cred>>

(***************************************************************************)
(* Actions: XMLHttpRequest                                                 *)
(***************************************************************************)
\* open(method, url, ...rest): the verdict is recorded, XO is called.  XO
\* throws a SyntaxError for a url it cannot parse, and the instance stays
\* unopened.
XhrOpen(c, u, rest) ==
    /\ FirstIdle(c)
    /\ IF u.form = "bad"
       THEN /\ calls' = calls
            /\ last' = [NoLast EXCEPT !.kind = "fail", !.transport = "xhr",
                                      !.verdict = isApi(u),
                                      !.forwarded = TRUE, !.same = TRUE]
       ELSE /\ calls' = [calls EXCEPT ![c] =
                            [IdleCall EXCEPT !.pc = "opened", !.transport = "xhr",
                                             !.target = u, !.url = u,
                                             !.ccf_is_api = isApi(u)]]
            /\ last' = [NoLast EXCEPT !.kind = "open", !.transport = "xhr",
                                      !.inScope = ResolvedInScope(u),
                                      !.verdict = isApi(u),
                                      !.argsIn = rest,
                                      !.argsOut = openInstalled(installs, build, rest)]
    /\ UNCHANGED <<build, installs, storageOk, stored, cred>>

\* send(body), after the caller's own setRequestHeader calls.
XhrSend(c, callerAuth) ==
    /\ calls[c].pc = "opened"
    /\ calls' = [calls EXCEPT ![c].pc = "inflight"]
    /\ last' = [NoLast EXCEPT !.kind = "handoff", !.transport = "xhr",
                              !.inScope = ResolvedInScope(calls[c].target),
                              !.verdict = ccfIsApi(c),
                              !.callerAuth = callerAuth,
                              !.sentAuth = xhrSendInstalled(installs, build, ccfIsApi(c),
                                                            callerAuth, storageOk, stored),
                              !.once = <<xhrSendInstalled(1, build, ccfIsApi(c),
                                                          callerAuth, storageOk, stored),
                                         Absent>>,
                              !.forwarded = TRUE, !.sends = 1]
    /\ UNCHANGED <<build, installs, storageOk, stored, cred>>

\* The 'load' event: the response arrived, from respUrl (the target itself,
\* or where redirects led).  A completion handler the caller attached before
\* send (onreadystatechange, onload, a 'load' listener) runs before the
\* listener that send registered; one attached later, or onloadend, runs
\* after it: atNotify holds what either finds in the store.
XhrLoad(c, status, body, rtype, respUrl) ==
    /\ calls[c].pc = "inflight"
    /\ calls[c].transport = "xhr"
    /\ respUrl.form # "bad"
    /\ \E p \in { RemoveDots(respUrl.segs, << >>) } :
       \E e \in { RespEvt(p, status, XhrJson(rtype, body)) },
          new \in { xhrLoadInstalled(installs, build, ccfIsApi(c), Serialize(respUrl),
                                     status, rtype, body, storageOk, stored) },
          once \in { xhrLoadInstalled(1, build, ccfIsApi(c), Serialize(respUrl),
                                      status, rtype, body, storageOk, stored) } :
           /\ stored' = new
           /\ calls' = Finish(c, ResolvedInScope(calls[c].target), e)
           /\ last' = [Delivered(c, e, new) EXCEPT
                          !.path = PathClass(p),
                          !.onceStored = once,
                          !.atNotify = {stored, new}]
           /\ cred' = CredAfter(c, e)
    /\ UNCHANGED <<build, installs, storageOk>>

\* 'error', 'abort' or 'timeout' instead of 'load': the listener never runs.
XhrFail(c) ==
    /\ calls[c].pc = "inflight"
    /\ calls[c].transport = "xhr"
    /\ stored' = onTransportFailure(storageOk, stored)
    /\ calls' = [calls EXCEPT ![c] = IdleCall]
    /\ last' = [Failed(c) EXCEPT !.changed = (onTransportFailure(storageOk, stored) # stored)]
    /\ UNCHANGED <<build, installs, storageOk, cred>>

(***************************************************************************)
(* Actions: window.__ccfAuth (part_000 only) and the storage itself        *)
(***************************************************************************)
DebugArgs == Tokens \cup {"", Undefined}

\* __ccfAuth.setToken(__ccfAuth.getToken()), followed by a getToken() whose
\* result is the value reported.
setGet(ok, st) ==
    LET g == getToken(ok, st)
        w == setToken(ok, st, g.value)
    IN  [value  |-> getToken(ok, w.stored).value,
         stored |-> w.stored,
         raised |-> g.raised \/ w.raised]

DebugOp(op, arg) ==
    /\ build = "p0"
    /\ op = "set" \/ arg = Undefined
    /\ LET r == IF op = "get" THEN getToken(storageOk, stored)
                ELSE IF op = "set" THEN setToken(storageOk, stored, arg)
                ELSE IF op = "roundtrip" THEN setGet(storageOk, stored)
                ELSE clearToken(storageOk, stored)
       IN  /\ stored' = r.stored
           /\ last' = [NoLast EXCEPT !.kind = "store", !.op = op, !.arg = arg,
                                     !.value = r.value, !.raised = r.raised,
                                     !.changed = (r.stored # stored)]
           /\ cred' = IF op = "get" \/ (op = "roundtrip" /\ r.stored = stored) THEN cred
                      ELSE [evt |-> "debug", tok |-> Null, ok |-> storageOk]
    /\ UNCHANGED <<build, installs, storageOk, calls>>

\* The browser starts or stops denying access to localStorage.  The step is
\* no step of the patch: the observation of the last one is dropped.
StorageFlip ==
    /\ storageOk' = ~storageOk
    /\ last' = NoLast
    /\ UNCHANGED <<build, installs, stored, calls, cred>>

\* Where a redirect may lead an XHR, besides nowhere.
RedirectTargets ==
    { U("path", <<"api", "auth", "login">>), U("path", <<"v1", "api", "auth", "login">>) }

\* One call at a time, every kind of input.
SeqSlots == {1}

Next ==
    \/ \E c \in SeqSlots, shape \in FetchShapes, u \in Targets, init \in InitChoices :
          \E reqH \in (IF shape = "Request" THEN ReqHeaderChoices ELSE {EmptyHeaders}) :
            FetchCall(c, shape, u, reqH, init)
    \/ \E c \in SeqSlots, status \in Statuses, body \in Bodies : FetchSettle(c, status, body)
    \/ \E c \in SeqSlots : FetchBodyRead(c)
    \/ \E c \in SeqSlots : FetchReject(c)
    \/ \E c \in SeqSlots, u \in Targets, rest \in OpenArgChoices : XhrOpen(c, u, rest)
    \/ \E c \in SeqSlots, a \in {Absent, Caller("xhr")} : XhrSend(c, a)
    \/ \E c \in SeqSlots, status \in Statuses, r \in XhrResponses :
          \E respUrl \in {calls[c].target} \cup RedirectTargets :
            XhrLoad(c, status, r[2], r[1], respUrl)
    \/ \E c \in SeqSlots : XhrFail(c)
    \/ \E op \in {"get", "set", "clear", "roundtrip"}, arg \in DebugArgs : DebugOp(op, arg)
    \/ StorageFlip

Spec == Init /\ [][Next]_vars


\* Several calls at a time, in every interleaving of their steps: string
\* targets without caller headers, answered 200 or 401.
ConcTargets ==
    { U("path", <<"api", "auth", "login">>), U("rel", <<"public", "..", "api", "widgets">>),
      U("path", <<"v1", "api", "auth", "login">>) }
ConcStatuses == {200, 401}
ConcBodies == { Body(TRUE, "string", "tokA"), Body(FALSE, "missing", "") }

NextConc ==
    \/ \E c \in Slots, u \in ConcTargets : FetchCall(c, "string", u, EmptyHeaders, NoInit)
    \/ \E c \in Slots, status \in ConcStatuses, body \in ConcBodies :
          FetchSettle(c, status, body)
    \/ \E c \in Slots : FetchBodyRead(c)
    \/ \E c \in Slots : FetchReject(c)
    \/ \E c \in Slots, u \in ConcTargets : XhrOpen(c, u, << >>)
    \/ \E c \in Slots : XhrSend(c, Absent)
    \/ \E c \in Slots, status \in ConcStatuses, body \in ConcBodies :
          XhrLoad(c, status, body, "", calls[c].target)
    \/ \E c \in Slots : XhrFail(c)

SpecConc == Init /\ [][NextConc]_vars

\* A page that ran the boot code twice: one call at a time, string and
\* Request targets, answered 200 or 401.
NextTwice ==
    \/ \E c \in SeqSlots, shape \in {"string", "Request"}, u \in ConcTargets,
             init \in InitChoices :
          \E reqH \in (IF shape = "Request" THEN ReqHeaderChoices ELSE {EmptyHeaders}) :
            FetchCall(c, shape, u, reqH, init)
    \/ \E c \in SeqSlots, status \in ConcStatuses, body \in ConcBodies :
          FetchSettle(c, status, body)
    \/ \E c \in SeqSlots : FetchInnerRead(c)
    \/ \E c \in SeqSlots : FetchBodyRead(c)
    \/ \E c \in SeqSlots : FetchReject(c)
    \/ \E c \in SeqSlots, u \in ConcTargets, rest \in OpenArgChoices : XhrOpen(c, u, rest)
    \/ \E c \in SeqSlots, a \in {Absent, Caller("xhr")} : XhrSend(c, a)
    \/ \E c \in SeqSlots, status \in ConcStatuses, body \in ConcBodies :
          XhrLoad(c, status, body, "", calls[c].target)
    \/ \E c \in SeqSlots : XhrFail(c)

SpecTwice == InitTwice /\ [][NextTwice]_vars

(***************************************************************************)
(* Properties                                                              *)
(***************************************************************************)
HandOff == last.kind = "handoff"
Completion == last.kind = "deliver"
NoBearer(v) == \A i \in DOMAIN v : v[i].kind # "Bearer"

\* C1: an in-scope call that completes with 401, on fetch or XHR, clears the
\* stored credential, and the next in-scope call handed to the transport with
\* no login in between carries no Authorization header.  (Stated of
\* auth-header.ts; part_000 clears on neither transport.)
C1_UnauthorizedClears ==
    build = "boot" =>
    /\ (Completion /\ last.inScope /\ last.resp = "unauth" /\ storageOk) => stored = Null
    /\ (HandOff /\ last.inScope /\ cred.evt = "unauth" /\ cred.ok /\ last.callerAuth = Absent)
          => last.sentAuth = Absent

\* C2: when the caller of an in-scope call supplied an Authorization value
\* (Request headers, init headers, setRequestHeader), the value that reaches
\* the original transport is exactly that value.  (Stated of auth-header.ts;
\* part_000 also drops the Authorization of a Request input.)
C2_CallerAuthorizationKept ==
    (build = "boot" /\ HandOff /\ last.inScope /\ last.callerAuth # Absent)
        => last.sentAuth = last.callerAuth

\* C3: after an in-scope 2xx login response with data.auth_token = T, every
\* in-scope call without an Authorization of its own carries Bearer T, until
\* the next credential event.
C3_LoginTokenAttached ==
    (HandOff /\ last.inScope /\ last.callerAuth = Absent
       /\ cred.evt = "login" /\ cred.ok /\ storageOk)
        => last.sentAuth = Bearer(cred.tok)

\* C4: a call whose resolved path is not under /api/ gets no Authorization
\* from the interceptor, and its completion leaves the stored credential as
\* it was, whatever the final path, the status or the body.
C4_OutOfScopeUntouched ==
    /\ (HandOff /\ ~last.inScope) => (NoBearer(last.sentAuth) /\ ~last.verdict)
    /\ (last.kind \in {"deliver", "fail"} /\ ~last.inScope) => ~last.changed
C4_Witness ==
    /\ Completion /\ ~last.inScope
    /\ last.resp \in {"unauth", "login", "logout"}
    /\ stored \in Tokens /\ storageOk

\* C5: a 2xx response to /api/auth/logout leaves the store as a 401 does: no
\* credential, and no Authorization on the next in-scope call.  (Stated of
\* auth-header.ts; part_000 clears on neither transport.)
C5_LogoutClears ==
    build = "boot" =>
    /\ (Completion /\ last.inScope /\ last.resp = "logout" /\ storageOk) => stored = Null
    /\ (HandOff /\ last.inScope /\ cred.evt = "logout" /\ cred.ok /\ last.callerAuth = Absent)
          => last.sentAuth = Absent

\* C6: an in-scope call handed to the transport while the store holds T, the
\* caller having supplied no Authorization, carries Authorization: Bearer T.
C6_StoredTokenInjected ==
    (HandOff /\ last.inScope /\ last.callerAuth = Absent /\ storageOk /\ stored # Null)
        => last.sentAuth = Bearer(stored)

\* C7: both interceptors reach the verdict "the resolved path begins with
\* /api/" for every target, whatever the shape of the fetch target.
C7_VerdictIsResolvedPrefix ==
    last.kind \in {"handoff", "threw", "fail"} => last.verdict = last.inScope

\* C8: when a login response and a 401 of another in-scope call race, the
\* credential after both were processed is the effect of the one processed
\* later.  (Stated of auth-header.ts.)
C8_LaterCompletionWins ==
    (build = "boot" /\ Completion /\ last.raced /\ storageOk)
        => /\ last.resp = "unauth" => stored = Null
           /\ last.resp = "login" => stored = cred.tok

\* C9: the caller gets the result the original transport produced for the
\* forwarded call; the interceptor never fails a call by itself.  (Stated of
\* auth-header.ts; the fetch wrapper of part_000 behaves alike.)
C9_OutcomeUnchanged ==
    (build = "boot" /\ last.kind \in {"handoff", "threw", "deliver", "fail"})
        => (last.forwarded /\ last.same)

\* C10: the Token Store operations never raise; with the storage failing get
\* returns "" and set and clear leave the item as it was; set with an empty
\* or absent value writes nothing.
C10_TokenStoreFailSoft ==
    last.kind = "store" =>
        /\ ~last.raised
        /\ ~storageOk => (~last.changed /\ (last.op = "get" => last.value = ""))
        /\ (last.op = "set" /\ last.arg \in {"", Undefined}) => ~last.changed
        /\ stored # ""
C10_Witness ==
    /\ last.kind = "store" /\ last.op \in {"set", "clear"}
    /\ ~storageOk /\ stored \in Tokens

C12_RoundTrip ==
    (last.kind = "store" /\ storageOk)
        => /\ (last.op = "set" /\ last.arg \in Tokens) => stored = last.arg
           /\ last.op \in {"get", "roundtrip"}
                 => (~last.changed /\ last.value = IF stored = Null THEN "" ELSE stored)
C12_Witness ==
    /\ last.kind = "store" /\ last.op = "roundtrip" /\ cred.evt = "debug"
    /\ storageOk /\ stored \in Tokens /\ last.value = stored

\* C13: an in-scope fetch call is sent with the Request's headers overlaid
\* with the init headers (init wins, the other Request headers are kept), and
\* Authorization: Bearer <token> is added exactly when that merge has no
\* Authorization and the store yields a non-empty token.
C13_FetchHeaderMerge ==
    (HandOff /\ last.transport = "fetch" /\ last.inScope)
        => /\ last.sentAccept = last.callerAccept
           /\ last.sentAuth = IF last.callerAuth # Absent THEN last.callerAuth
                              ELSE IF storageOk /\ stored # Null THEN Bearer(stored)
                              ELSE Absent

\* C14: with the boot code run twice, every call reaches the original
\* transport with the headers one installation gives it, and every completion
\* leaves in the store what one installation leaves; Authorization is
\* injected once.
C14_SecondInstallChangesNothing ==
    installs = 2 =>
        /\ HandOff => <<last.sentAuth, last.sentAccept>> = last.once
        /\ Completion => stored = last.onceStored

\* C15: the patched open records the classifier's verdict for the target on
\* the instance and calls the original open with the arguments it was given,
\* none added and none defaulted.
C15_OpenArgumentsUnchanged ==
    /\ last.kind = "open" => (last.argsOut = last.argsIn /\ last.verdict = last.inScope)
    /\ \A c \in Slots : calls[c].pc = "opened" => ccfIsApi(c) = isApi(calls[c].target)

\* C16: with several calls in flight, the verdict used for a call and the
\* effect of its completion on the store are those of its own target and its
\* own response, whatever the other calls were opened with, sent with or
\* answered.
C16_CallsIndependent ==
    /\ last.kind \in {"handoff", "deliver", "fail"} => last.verdict = last.inScope
    /\ Completion =>
          LET captures == last.inScope /\ last.resp = "login"
                          /\ (last.transport = "fetch" \/ build = "boot")
              clears   == last.inScope /\ last.resp \in {"unauth", "logout"}
                          /\ last.transport = "xhr" /\ build = "boot"
          IN  /\ captures => stored = cred.tok
              /\ clears => stored = Null
              /\ ~(captures \/ clears) => ~last.changed
\* An out-of-scope call is answered 401 while an in-scope call is in flight
\* and a token is stored.
C16_Witness ==
    /\ Completion /\ ~last.inScope /\ last.resp = "unauth" /\ stored \in Tokens
    /\ \E d \in Slots : calls[d].pc = "inflight" /\ calls[d].ccf_is_api
                          /\ calls[d].transport = "xhr"

\* C17: a call that fails at the transport before a response exists (error,
\* abort, timeout, rejection) leaves the stored credential as it was.
C17_TransportFailureNoEffect ==
    last.kind = "fail" => ~last.changed
C17_Witness ==
    /\ last.kind = "fail" /\ last.inScope /\ last.verdict
    /\ stored \in Tokens /\ storageOk

\* C18: every call into an interceptor reaches the original transport exactly
\* once: none is dropped, and no response makes the interceptor send again.
C18_ForwardedExactlyOnce ==
    /\ last.kind \in {"handoff", "threw"} => last.sends = 1
    /\ last.kind \in {"deliver", "fail"} => last.sends = 0

\* C19: the store holds nothing, or a non-empty string; a completion that
\* writes a value writes the data.auth_token of that very response, a 2xx
\* response to an in-scope call on a path ending in /api/auth/login; any
\* other write of a value is a debug set of that value.
C19_CredentialProvenance ==
    /\ stored \in Tokens \cup {Null}
    /\ (last.changed /\ stored # Null) =>
          \/ /\ Completion /\ last.inScope /\ last.resp = "login" /\ last.path = "login"
             /\ stored = cred.tok
          \/ /\ last.kind = "store" /\ last.op = "set" /\ stored = last.arg
C19_Witness ==
    /\ Completion /\ last.changed /\ stored = "tokB" /\ last.transport = "xhr"

\* C20: when the caller learns that a successful login completed (the fetch
\* promise resolves, the caller's XHR completion handler runs), the token of
\* that response is in the store.  (Stated of auth-header.ts; part_000 stores
\* nothing from an XHR login.)
C20_StoredBeforeNotified ==
    (build = "boot" /\ Completion /\ last.inScope /\ last.resp = "login" /\ storageOk)
        => \A v \in last.atNotify : v = cred.tok

====
